---- MODULE Spec2Model ----
(***************************************************************************)
(* HRMS-Dashboard: the leave / attendance routes and the stores they use.  *)
(*                                                                         *)
(* A Date is an integer number of ticks since day 0.  A calendar day holds *)
(* one tick per time of day of TimesOfDay; its first tick is 00:00:00.000, *)
(* its last tick is 23:59:59.999.  Local time is the reference zone.       *)
(*                                                                         *)
(* Spec     : every request handler runs to completion (no interleaving).  *)
(* SpecConc : the leave handlers advance one await at a time, interleaved. *)
(* SpecReport: the two report handlers, on stores drawn from bounded sets. *)
(* SpecAuth : every handler behind the auth middleware, two requests.      *)
(***************************************************************************)
EXTENDS Integers, Sequences, FiniteSets, TLC

\* ------------------------------------------------------------------ bounds
MaxDay == 1          \* calendar days 0 .. MaxDay
MaxRequests == 3     \* requests received in one behaviour
MonthLength == 2     \* calendar days of a month (the report specification)
MaxTime == 2         \* clock seconds 0 .. MaxTime (the auth specification)

\* the times of day a Date can carry, in ascending order
TimesOfDay == <<"00:00:00.000", "23:59:59.999">>
TicksPerDay == Len(TimesOfDay)

Employees == {"e1", "e2"}
Days == 0..MaxDay
Dates == 0..((MaxDay + 1) * TicksPerDay - 1)
LeaveIds == 1..(MaxRequests + 1)
Procs == {1, 2}

\* ------------------------------------------------------------ schema enums
AttendanceStatuses == {"present", "absent", "half-day", "leave"}
\* the statuses the modelled manual attendance requests carry
ManualStatuses == {"present", "absent"}
LeaveStatuses == {"pending", "approved", "rejected"}
EmployeeStatuses == {"active", "inactive"}

VARIABLES
    employees,    \* Employee collection: employee -> status
    attendance,   \* Attendance collection: set of [employee, date, status]
    leaves,       \* Leave collection: set of [id, employee, startDate, endDate, status]
    nextLeaveId,  \* the _id the next stored leave gets
    handled,      \* requests received so far
    last,         \* the response of the request that completed last
    pc,           \* SpecConc: each handler's position
    req,          \* SpecConc: each handler's request and locals
    writes        \* SpecConc: sync writes done, with the leave status stored at that moment

vars == <<employees, attendance, leaves, nextLeaveId, handled, last, pc, req, writes>>
store == <<employees, attendance, leaves, nextLeaveId>>

\* ------------------------------------------------------------- Date helpers
DayOf(d) == d \div TicksPerDay
\* Date.setHours(0, 0, 0, 0)
StartOfDay(d) == DayOf(d) * TicksPerDay
\* Date.setHours(23, 59, 59, 999)
EndOfDay(d) == DayOf(d) * TicksPerDay + (TicksPerDay - 1)
\* currentDate.setDate(currentDate.getDate() + 1)
NextDay(d) == d + TicksPerDay

\* the while loop building dateRange: start, start + 1 day, ... while <= end
RECURSIVE DateRangeFrom(_, _)
DateRangeFrom(cur, end) ==
    IF cur <= end THEN <<cur>> \o DateRangeFrom(NextDay(cur), end) ELSE <<>>

LeaveDateRange(l) == DateRangeFrom(StartOfDay(l.startDate), EndOfDay(l.endDate))

\* ------------------------------------------------------- Attendance queries
NoRecord == [employee |-> "none", date |-> -1, status |-> "none"]

AttendanceRecord(e, d, st) == [employee |-> e, date |-> d, status |-> st]

\* the unique compound index { employee: 1, date: 1 }
UniqueIndexOk(att) ==
    \A a, b \in att : (a.employee = b.employee /\ a.date = b.date) => a = b

\* Attendance.findOne({ employee, date: new Date(date) }): exact instant
FindExact(att, e, d) ==
    LET hit == {a \in att : a.employee = e /\ a.date = d}
    IN  IF hit = {} THEN NoRecord ELSE CHOOSE a \in hit : TRUE

\* FindInDay with the bug of matching 00:00:00.000 only
FindInDayExact(att, e, d) == FindExact(att, e, StartOfDay(d))

\* Attendance.findOne({ employee, date: { $gte: 00:00:00.000, $lte: 23:59:59.999 } }):
\* the first match in the order of the { employee, date } index
FindInDay(att, e, d) ==
    LET hit == {a \in att : a.employee = e /\ a.date >= StartOfDay(d) /\ a.date <= EndOfDay(d)}
    IN  IF hit = {} THEN NoRecord
        ELSE CHOOSE a \in hit : \A b \in hit : a.date <= b.date

\* attendance.status = 'leave'; attendance.save()
SetStatus(att, a, st) == (att \ {a}) \cup {[a EXCEPT !.status = st]}

\* the date a sync-created record carries: after the two setHours calls of the
\* query, the loop's Date object stands at 23:59:59.999 of its day
SyncInsertDate(d) == EndOfDay(d)

\* the unique index refuses a second document with this employee and date
DuplicateKey(att, e, d) == FindExact(att, e, d) # NoRecord

\* SyncDay with the bug of leaving a record that exists as it is
SyncDayKeepsExisting(sync, e, d) ==
    IF ~sync.ok \/ FindInDay(sync.att, e, d) # NoRecord THEN sync
    ELSE [att |-> sync.att \cup {AttendanceRecord(e, SyncInsertDate(d), "leave")},
          ok |-> TRUE]

\* SyncDay with the bug of never looking for the day's record: it always
\* creates one
SyncDayAlwaysInsert(sync, e, d) ==
    IF ~sync.ok THEN sync
    ELSE IF DuplicateKey(sync.att, e, SyncInsertDate(d))
    THEN [att |-> sync.att, ok |-> FALSE]
    ELSE [att |-> sync.att \cup {AttendanceRecord(e, SyncInsertDate(d), "leave")},
          ok |-> TRUE]

\* SyncDay with the bug of replacing the record found by a new one
SyncDayReplacing(sync, e, d) ==
    LET found == FindInDay(sync.att, e, d)
    IN  IF ~sync.ok THEN sync
        ELSE [att |-> (sync.att \ {found})
                      \cup {AttendanceRecord(e, SyncInsertDate(d), "leave")},
              ok |-> TRUE]

\* one iteration of the sync loop on the store sync.att: update the record
\* found, or create one; a refused write ends the loop (sync.ok = FALSE)
SyncDay(sync, e, d) ==
    LET found == FindInDay(sync.att, e, d)
    IN  IF ~sync.ok THEN sync
        ELSE IF found # NoRecord
        THEN [att |-> SetStatus(sync.att, found, "leave"), ok |-> TRUE]
        ELSE IF DuplicateKey(sync.att, e, SyncInsertDate(d))
        THEN [att |-> sync.att, ok |-> FALSE]
        ELSE [att |-> sync.att \cup {AttendanceRecord(e, SyncInsertDate(d), "leave")},
              ok |-> TRUE]

\* the first n iterations of the sync loop over dateRange
RECURSIVE SyncPrefix(_, _, _, _)
SyncPrefix(att, e, range, n) ==
    IF n = 0 THEN [att |-> att, ok |-> TRUE]
    ELSE SyncDay(SyncPrefix(att, e, range, n - 1), e, range[n])

\* Attendance.findOne({ employee, status: 'present' })
HasPresent(att, e) == \E a \in att : a.employee = e /\ a.status = "present"

\* ------------------------------------------------------------ Leave queries
\* the $or of the overlap query against the requested [startDate, endDate]
OverlapQuery(l, s, e) ==
    \/ (l.startDate <= e /\ l.startDate >= s)
    \/ (l.endDate >= s /\ l.endDate <= e)
    \/ (l.startDate <= s /\ l.endDate >= e)

\* Leave.findOne({ employee, $or: [...] }) finds a document
OverlappingLeave(lvs, emp, s, e) ==
    \E l \in lvs : l.employee = emp /\ OverlapQuery(l, s, e)

\* the $or GET /leaves adds to its query when startDate and endDate are given
LeavesDateFilter(l, startDate, endDate) ==
    \/ (l.startDate >= startDate /\ l.startDate <= endDate)
    \/ (l.endDate >= startDate /\ l.endDate <= endDate)
    \/ (l.startDate <= startDate /\ l.endDate >= endDate)

LeaveRecord(id, emp, s, e, st) ==
    [id |-> id, employee |-> emp, startDate |-> s, endDate |-> e, status |-> st]

\* new Leave({...}): the schema default gives status 'pending'
NewLeave(id, emp, s, e) == LeaveRecord(id, emp, s, e, "pending")

LeaveById(lvs, id) == CHOOSE l \in lvs : l.id = id
HasLeave(lvs, id) == \E l \in lvs : l.id = id

\* Leave.findByIdAndUpdate(id, { $set: leaveFields }): status is set when the
\* request carries one ("none": a document-only update)
UpdateLeave(lvs, id, st) ==
    IF st = "none" THEN lvs
    ELSE {IF l.id = id THEN [l EXCEPT !.status = st] ELSE l : l \in lvs}

\* --------------------------------------------------------------- responses
Response(op, id, status, err) ==
    [op |-> op, id |-> id, status |-> status, err |-> err,
     again |-> (op = "putLeave" /\ last.op = op /\ last.id = id
                /\ last.status = status /\ last.err = err)]

Idle == [op |-> "idle"]

TypeOK ==
    /\ employees \in [Employees -> EmployeeStatuses]
    /\ attendance \subseteq [employee : Employees, date : Dates, status : AttendanceStatuses]
    /\ UniqueIndexOk(attendance)
    /\ \A l \in leaves : l.id \in LeaveIds /\ l.employee \in Employees
                         /\ l.startDate \in Dates /\ l.endDate \in Dates
                         /\ l.status \in LeaveStatuses
    /\ nextLeaveId \in 1..(MaxRequests + 1)
    /\ handled \in 0..MaxRequests

\* e1 has attended on day 0; nothing else is stored
Init ==
    /\ employees = [e \in Employees |-> "active"]
    /\ attendance = {AttendanceRecord("e1", 0, "present")}
    /\ leaves = {}
    /\ nextLeaveId = 1
    /\ handled = 0
    /\ last = [op |-> "none", id |-> 0, status |-> "none", err |-> "ok", again |-> FALSE]
    /\ pc = [p \in Procs |-> "idle"]
    /\ req = [p \in Procs |-> Idle]
    /\ writes = {}

\* a request is received
Receive ==
    /\ handled < MaxRequests
    /\ handled' = handled + 1

\* ------------------------------------------- handlers, run to completion
\* POST /attendance
PostAttendance(e, d, st) ==
    /\ Receive
    /\ IF employees[e] # "active"
       THEN /\ last' = Response("postAttendance", 0, "none", "EmployeeInactive")
            /\ UNCHANGED attendance
       ELSE IF FindExact(attendance, e, d) # NoRecord
       THEN /\ last' = Response("postAttendance", 0, "none", "DuplicateRecord")
            /\ UNCHANGED attendance
       ELSE /\ attendance' = attendance \cup {AttendanceRecord(e, d, st)}
            /\ last' = Response("postAttendance", 0, "none", "ok")
    /\ UNCHANGED <<employees, leaves, nextLeaveId, pc, req, writes>>

\* PUT /attendance/:id
PutAttendance(a, st) ==
    /\ Receive
    /\ a \in attendance
    /\ attendance' = SetStatus(attendance, a, st)
    /\ last' = Response("putAttendance", 0, "none", "ok")
    /\ UNCHANGED <<employees, leaves, nextLeaveId, pc, req, writes>>

\* DELETE /attendance/:id; a sync that holds the document loses it
DeleteAttendance(a) ==
    /\ Receive
    /\ a \in attendance
    /\ attendance' = attendance \ {a}
    /\ last' = Response("deleteAttendance", 0, "none", "ok")
    /\ req' = [p \in Procs |->
                 IF pc[p] = "ul_sync_save" /\ req[p].found.employee = a.employee
                    /\ req[p].found.date = a.date
                 THEN [req[p] EXCEPT !.gone = TRUE] ELSE req[p]]
    /\ UNCHANGED <<employees, leaves, nextLeaveId, pc, writes>>

\* PUT /employees/:id with a status
PutEmployee(e, st) ==
    /\ Receive
    /\ employees' = [employees EXCEPT ![e] = st]
    /\ last' = Response("putEmployee", 0, "none", "ok")
    /\ UNCHANGED <<attendance, leaves, nextLeaveId, pc, req, writes>>

\* POST /leaves
PostLeave(e, s, en) ==
    /\ Receive
    /\ IF employees[e] # "active"
       THEN /\ last' = Response("postLeave", 0, "none", "EmployeeInactive")
            /\ UNCHANGED <<leaves, nextLeaveId>>
       ELSE IF ~HasPresent(attendance, e)
       THEN /\ last' = Response("postLeave", 0, "none", "NoAttendanceHistory")
            /\ UNCHANGED <<leaves, nextLeaveId>>
       ELSE IF OverlappingLeave(leaves, e, s, en)
       THEN /\ last' = Response("postLeave", 0, "none", "OverlappingLeave")
            /\ UNCHANGED <<leaves, nextLeaveId>>
       ELSE /\ leaves' = leaves \cup {NewLeave(nextLeaveId, e, s, en)}
            /\ nextLeaveId' = nextLeaveId + 1
            /\ last' = Response("postLeave", nextLeaveId, "pending", "ok")
    /\ UNCHANGED <<employees, attendance, pc, req, writes>>

\* PUT /leaves/:id; n: the sync iterations that complete before an attendance
\* write is refused by the store (n = Len(dateRange): none is refused)
PutLeave(id, st, n) ==
    /\ Receive
    /\ IF ~HasLeave(leaves, id)
       THEN /\ n = 0
            /\ last' = Response("putLeave", id, st, "NotFound")
            /\ UNCHANGED <<leaves, attendance>>
       ELSE LET upd == UpdateLeave(leaves, id, st)
                l == LeaveById(upd, id)
                range == LeaveDateRange(l)
            IN  /\ leaves' = upd
                /\ IF st = "approved"
                   THEN LET sync == SyncPrefix(attendance, l.employee, range, n)
                        IN  /\ n \in 0..Len(range)
                            /\ attendance' = sync.att
                            /\ last' = Response("putLeave", id, st,
                                                IF sync.ok /\ n = Len(range)
                                                THEN "ok" ELSE "ServerError")
                   ELSE /\ n = 0
                        /\ UNCHANGED attendance
                        /\ last' = Response("putLeave", id, st, "ok")
    /\ UNCHANGED <<employees, nextLeaveId, pc, req, writes>>

\* DeleteLeave with the bug of removing the attendance the leave's sync wrote
DeleteLeaveReverting(id) ==
    /\ Receive
    /\ HasLeave(leaves, id)
    /\ leaves' = {l \in leaves : l.id # id}
    /\ attendance' = {a \in attendance :
                        ~(/\ a.employee = LeaveById(leaves, id).employee
                          /\ a.status = "leave"
                          /\ a.date >= StartOfDay(LeaveById(leaves, id).startDate)
                          /\ a.date <= EndOfDay(LeaveById(leaves, id).endDate))}
    /\ last' = Response("deleteLeave", id, "none", "ok")
    /\ UNCHANGED <<employees, nextLeaveId, pc, req, writes>>

\* DELETE /leaves/:id
DeleteLeave(id) ==
    /\ Receive
    /\ HasLeave(leaves, id)
    /\ leaves' = {l \in leaves : l.id # id}
    /\ last' = Response("deleteLeave", id, "none", "ok")
    /\ UNCHANGED <<employees, attendance, nextLeaveId, pc, req, writes>>

MaxRange == MaxDay + 1
PutStatuses == LeaveStatuses \cup {"none"}
\* the ids a request can name: those handed out so far, and one that is unknown
KnownIds == 1..nextLeaveId

Next ==
    \/ \E e \in Employees, d \in Dates, st \in ManualStatuses : PostAttendance(e, d, st)
    \/ \E a \in attendance, st \in ManualStatuses : PutAttendance(a, st)
    \/ \E a \in attendance : DeleteAttendance(a)
    \/ \E e \in Employees, st \in EmployeeStatuses : PutEmployee(e, st)
    \/ \E e \in Employees, s \in Dates, en \in Dates : PostLeave(e, s, en)
    \/ \E id \in KnownIds, st \in PutStatuses, n \in 0..MaxRange : PutLeave(id, st, n)
    \/ \E id \in KnownIds : DeleteLeave(id)

Spec == Init /\ [][Next]_vars

\* ------------------------------ the leave handlers, one await at a time
\* a free handler slot takes the request (the lowest free one: slots are alike)
Free(p) == pc[p] = "idle" /\ \A q \in Procs : q < p => pc[q] # "idle"

Goto(p, label) == pc' = [pc EXCEPT ![p] = label]

Respond(p, op, id, status, err) ==
    /\ last' = Response(op, id, status, err)
    /\ pc' = [pc EXCEPT ![p] = "idle"]
    /\ req' = [req EXCEPT ![p] = Idle]

\* the status stored for leave id at this moment
StoredStatus(id) == IF HasLeave(leaves, id) THEN LeaveById(leaves, id).status ELSE "deleted"

\* POST /leaves is received
StartPostLeave(p, e, s, en) ==
    /\ Receive
    /\ Free(p)
    /\ req' = [req EXCEPT ![p] = [op |-> "postLeave", employee |-> e,
                                  startDate |-> s, endDate |-> en]]
    /\ Goto(p, "pl_employee")
    /\ UNCHANGED <<store, last, writes>>

\* await Employee.findById(employee)
PLEmployee(p) ==
    /\ pc[p] = "pl_employee"
    /\ IF employees[req[p].employee] # "active"
       THEN Respond(p, "postLeave", 0, "none", "EmployeeInactive")
       ELSE Goto(p, "pl_attendance") /\ UNCHANGED <<last, req>>
    /\ UNCHANGED <<store, handled, writes>>

\* await Attendance.findOne({ employee, status: 'present' })
PLAttendance(p) ==
    /\ pc[p] = "pl_attendance"
    /\ IF ~HasPresent(attendance, req[p].employee)
       THEN Respond(p, "postLeave", 0, "none", "NoAttendanceHistory")
       ELSE Goto(p, "pl_overlap") /\ UNCHANGED <<last, req>>
    /\ UNCHANGED <<store, handled, writes>>

\* await Leave.findOne({ employee, $or: [...] })
PLOverlap(p) ==
    /\ pc[p] = "pl_overlap"
    /\ IF OverlappingLeave(leaves, req[p].employee, req[p].startDate, req[p].endDate)
       THEN Respond(p, "postLeave", 0, "none", "OverlappingLeave")
       ELSE Goto(p, "pl_save") /\ UNCHANGED <<last, req>>
    /\ UNCHANGED <<store, handled, writes>>

\* await newLeave.save()
PLSave(p) ==
    /\ pc[p] = "pl_save"
    /\ leaves' = leaves \cup {NewLeave(nextLeaveId, req[p].employee,
                                       req[p].startDate, req[p].endDate)}
    /\ nextLeaveId' = nextLeaveId + 1
    /\ Respond(p, "postLeave", nextLeaveId, "pending", "ok")
    /\ UNCHANGED <<employees, attendance, handled, writes>>

\* PUT /leaves/:id is received
StartPutLeave(p, id, st) ==
    /\ Receive
    /\ Free(p)
    /\ req' = [req EXCEPT ![p] = [op |-> "putLeave", id |-> id, status |-> st]]
    /\ Goto(p, "ul_find")
    /\ UNCHANGED <<store, last, writes>>

\* await Leave.findById(req.params.id)
ULFind(p) ==
    /\ pc[p] = "ul_find"
    /\ IF ~HasLeave(leaves, req[p].id)
       THEN Respond(p, "putLeave", req[p].id, req[p].status, "NotFound")
       ELSE Goto(p, "ul_update") /\ UNCHANGED <<last, req>>
    /\ UNCHANGED <<store, handled, writes>>

\* await Leave.findByIdAndUpdate(...): null when the leave is gone; on approval
\* the date range is built from the updated document
ULUpdate(p) ==
    /\ pc[p] = "ul_update"
    /\ LET id == req[p].id
           st == req[p].status
       IN  IF ~HasLeave(leaves, id)
           THEN /\ Respond(p, "putLeave", id, st,
                           IF st = "approved" THEN "ServerError" ELSE "ok")
                /\ UNCHANGED leaves
           ELSE LET upd == UpdateLeave(leaves, id, st)
                    l == LeaveById(upd, id)
                    range == LeaveDateRange(l)
                IN  /\ leaves' = upd
                    /\ IF st = "approved" /\ range # <<>>
                       THEN /\ req' = [req EXCEPT ![p] =
                                         [op |-> "putLeave", id |-> id, status |-> st,
                                          employee |-> l.employee, range |-> range,
                                          i |-> 1, found |-> NoRecord, gone |-> FALSE]]
                            /\ Goto(p, "ul_sync_find")
                            /\ UNCHANGED last
                       ELSE Respond(p, "putLeave", id, st, "ok")
    /\ UNCHANGED <<employees, attendance, nextLeaveId, handled, writes>>

\* await Attendance.findOne({ employee, date: { $gte, $lte } }) for dateRange[i]
ULSyncFind(p) ==
    /\ pc[p] = "ul_sync_find"
    /\ req' = [req EXCEPT ![p].found = FindInDay(attendance, req[p].employee,
                                                 req[p].range[req[p].i]),
                          ![p].gone = FALSE]
    /\ Goto(p, "ul_sync_save")
    /\ UNCHANGED <<store, handled, last, writes>>

\* the loop goes on to the next date, or the handler responds
SyncAdvance(p) ==
    IF req[p].i = Len(req[p].range)
    THEN Respond(p, "putLeave", req[p].id, req[p].status, "ok")
    ELSE /\ req' = [req EXCEPT ![p].i = req[p].i + 1]
         /\ Goto(p, "ul_sync_find")
         /\ UNCHANGED last

SyncFail(p) ==
    /\ Respond(p, "putLeave", req[p].id, req[p].status, "ServerError")
    /\ UNCHANGED <<attendance, writes>>

\* await attendance.save() of the document found (only a changed status is
\* written; a document deleted meanwhile is not found), or
\* await newAttendance.save() (the unique index refuses a duplicate)
ULSyncSave(p) ==
    /\ pc[p] = "ul_sync_save"
    /\ LET found == req[p].found
           e == req[p].employee
           d == req[p].range[req[p].i]
       IN  IF found # NoRecord
           THEN IF found.status = "leave"
                THEN SyncAdvance(p) /\ UNCHANGED <<attendance, writes>>
                ELSE IF req[p].gone
                THEN SyncFail(p)
                ELSE /\ attendance' = SetStatus(attendance,
                                                FindExact(attendance, e, found.date), "leave")
                     /\ writes' = writes \cup {StoredStatus(req[p].id)}
                     /\ SyncAdvance(p)
           ELSE IF DuplicateKey(attendance, e, SyncInsertDate(d))
                THEN SyncFail(p)
                ELSE /\ attendance' = attendance
                                      \cup {AttendanceRecord(e, SyncInsertDate(d), "leave")}
                     /\ writes' = writes \cup {StoredStatus(req[p].id)}
                     /\ SyncAdvance(p)
    /\ UNCHANGED <<employees, leaves, nextLeaveId, handled>>

\* the store refuses the sync's query or write: the catch block answers 500
ULSyncRefused(p) ==
    /\ pc[p] \in {"ul_sync_find", "ul_sync_save"}
    /\ SyncFail(p)
    /\ UNCHANGED <<employees, leaves, nextLeaveId, handled>>

NextConc ==
    \/ \E p \in Procs, e \in Employees, s \in Dates, en \in Dates : StartPostLeave(p, e, s, en)
    \/ \E p \in Procs : PLEmployee(p)
    \/ \E p \in Procs : PLAttendance(p)
    \/ \E p \in Procs : PLOverlap(p)
    \/ \E p \in Procs : PLSave(p)
    \/ \E p \in Procs, id \in KnownIds, st \in PutStatuses : StartPutLeave(p, id, st)
    \/ \E p \in Procs : ULFind(p)
    \/ \E p \in Procs : ULUpdate(p)
    \/ \E p \in Procs : ULSyncFind(p)
    \/ \E p \in Procs : ULSyncSave(p)
    \/ \E p \in Procs : ULSyncRefused(p)
    \/ \E e \in Employees, d \in Dates, st \in ManualStatuses : PostAttendance(e, d, st)
    \/ \E a \in attendance, st \in ManualStatuses : PutAttendance(a, st)
    \/ \E a \in attendance : DeleteAttendance(a)
    \/ \E e \in Employees, st \in EmployeeStatuses : PutEmployee(e, st)
    \/ \E id \in KnownIds : DeleteLeave(id)

SpecConc == Init /\ [][NextConc]_vars

\* ------------------------------------------------------------- the reports
\* the months a calendar request names (of one year), and their days
Months == {1, 2}
CalendarDays == 0..(Cardinality(Months) * MonthLength - 1)
CalendarDates == 0..(Cardinality(Months) * MonthLength * TicksPerDay - 1)

\* the Employee collection in its natural order
EmployeeOrder == <<"e1", "e2">>

\* employees[e] once DELETE /employees/:id has removed the document (the
\* attendance records and the leaves of e stay)
NoEmployee == "none"

\* .populate('employee', ...) finds the document (null otherwise)
Populated(emps, e) == emps[e] # NoEmployee

\* Attendance.find({ date: { $gte: start, $lte: end } })
AttendanceInWindow(att, start, end) == {a \in att : a.date >= start /\ a.date <= end}

\* employeeAttendance.filter(record => record.status === st).length
CountStatus(records, st) == Cardinality({a \in records : a.status = st})

\* one element of employees.map(...)
ReportRow(attendanceRecords, e) ==
    LET employeeAttendance == {a \in attendanceRecords : a.employee = e}
        present == CountStatus(employeeAttendance, "present")
        absent == CountStatus(employeeAttendance, "absent")
        halfDay == CountStatus(employeeAttendance, "half-day")
        leave == CountStatus(employeeAttendance, "leave")
    IN  [employee |-> e, present |-> present, absent |-> absent,
         halfDay |-> halfDay, leave |-> leave,
         total |-> present + absent + halfDay + leave]

\* the body of GET /attendance/report once both parameters are given; reading
\* record.employee._id of a record whose employee is null throws
AttendanceReport(emps, att, startDate, endDate) ==
    LET start == StartOfDay(startDate)
        end == EndOfDay(endDate)
        active == SelectSeq(EmployeeOrder, LAMBDA e : emps[e] = "active")
        attendanceRecords == AttendanceInWindow(att, start, end)
    IN  IF active # <<>> /\ \E a \in attendanceRecords : ~Populated(emps, a.employee)
        THEN [err |-> "ServerError", body |-> <<>>]
        ELSE [err |-> "ok",
              body |-> [i \in 1..Len(active) |-> ReportRow(attendanceRecords, active[i])]]

\* new Date(year, month - 1, 1): 00:00:00.000 of the month's first day
FirstOfMonth(month) == (month - 1) * MonthLength * TicksPerDay
\* new Date(year, month, 0): 00:00:00.000 of the month's last day
LastOfMonth(month) == FirstOfMonth(month + 1) - TicksPerDay

\* the filter of the calendar's Leave.find
CalendarQuery(l, startDate, endDate) ==
    /\ l.status = "approved"
    /\ \/ (l.startDate >= startDate /\ l.startDate <= endDate)
       \/ (l.endDate >= startDate /\ l.endDate <= endDate)
       \/ (l.startDate <= startDate /\ l.endDate >= endDate)

\* a find's documents, in the collection's natural order
RECURSIVE InOrder(_)
InOrder(lvs) ==
    IF lvs = {} THEN <<>>
    ELSE LET l == CHOOSE x \in lvs : \A y \in lvs : x.id <= y.id
         IN  <<l>> \o InOrder(lvs \ {l})

Max(a, b) == IF a >= b THEN a ELSE b
Min(a, b) == IF a <= b THEN a ELSE b

\* the while loop pushing one entry per step of a day; the date string is
\* toISOString().split('T')[0], the reference zone being UTC (the leave's type
\* is not modelled)
RECURSIVE CalendarRange(_, _, _)
CalendarRange(currentDate, end, l) ==
    IF currentDate <= end
    THEN <<[date |-> DayOf(currentDate), employee |-> l.employee]>>
         \o CalendarRange(NextDay(currentDate), end, l)
    ELSE <<>>

\* one element of leaves.map(...): the leave clipped to [startDate, endDate]
CalendarLeave(l, startDate, endDate) ==
    CalendarRange(Max(l.startDate, startDate), Min(l.endDate, endDate), l)

\* Array.prototype.flat()
RECURSIVE Flat(_)
Flat(seqs) == IF seqs = <<>> THEN <<>> ELSE Head(seqs) \o Flat(Tail(seqs))

\* the body of GET /leaves/calendar once both parameters are given; reading
\* leave.employee.name of a leave whose employee is null throws
LeaveCalendar(emps, lvs, month) ==
    LET startDate == FirstOfMonth(month)
        endDate == LastOfMonth(month)
        found == InOrder({l \in lvs : CalendarQuery(l, startDate, endDate)})
        calendarLeaves == [i \in 1..Len(found) |->
                              CalendarLeave(found[i], startDate, endDate)]
    IN  IF \E i \in 1..Len(found) :
              calendarLeaves[i] # <<>> /\ ~Populated(emps, found[i].employee)
        THEN [err |-> "ServerError", body |-> <<>>]
        ELSE [err |-> "ok", body |-> Flat(calendarLeaves)]

ReportResponse(op, err, body) == Response(op, 0, "none", err) @@ [body |-> body]

\* GetAttendanceReport with the bug of marking the employees it reports on
GetAttendanceReportMarking(given, startDate, endDate) ==
    /\ Receive
    /\ given
    /\ last' = ReportResponse("attendanceReport", "ok", <<>>)
    /\ attendance' = attendance
                     \cup {AttendanceRecord(e, EndOfDay(endDate), "absent") :
                             e \in {x \in Employees :
                                      /\ employees[x] = "active"
                                      /\ \A a \in AttendanceInWindow(attendance,
                                                StartOfDay(startDate), EndOfDay(endDate)) :
                                            a.employee # x}}
    /\ UNCHANGED <<employees, leaves, nextLeaveId, pc, req, writes>>

\* GET /attendance/report; given: startDate and endDate are both in the query
GetAttendanceReport(given, startDate, endDate) ==
    /\ Receive
    /\ last' = IF ~given
               THEN ReportResponse("attendanceReport", "ValidationError", <<>>)
               ELSE LET report == AttendanceReport(employees, attendance, startDate, endDate)
                    IN  ReportResponse("attendanceReport", report.err, report.body)
    /\ UNCHANGED <<store, pc, req, writes>>

\* GET /leaves/calendar; given: month and year are both in the query
GetLeaveCalendar(given, month) ==
    /\ Receive
    /\ last' = IF ~given
               THEN ReportResponse("leaveCalendar", "ValidationError", <<>>)
               ELSE LET flattenedLeaves == LeaveCalendar(employees, leaves, month)
                    IN  ReportResponse("leaveCalendar", flattenedLeaves.err,
                                       flattenedLeaves.body)
    /\ UNCHANGED <<store, pc, req, writes>>

\* the stores the reports are run on: employees active, inactive or removed;
\* up to two attendance records and no leave, or no attendance record and a
\* leave of e1, alone or (approved) beside an approved leave of e2 with
\* date-only dates
AttendanceChoices ==
    [employee : Employees, date : CalendarDates, status : AttendanceStatuses]
LeaveChoices(id, e) ==
    {LeaveRecord(id, e, s, en, st) : s \in CalendarDates, en \in CalendarDates,
                                     st \in LeaveStatuses}

InitReport ==
    /\ \/ /\ attendance \in {{a, b} : a \in AttendanceChoices, b \in AttendanceChoices}
                            \cup {{}}
          /\ UniqueIndexOk(attendance)
          /\ leaves = {}
       \/ /\ attendance = {}
          /\ leaves \in {{l} : l \in LeaveChoices(1, "e1")}
                        \cup {{l, m} : l \in {x \in LeaveChoices(1, "e1") :
                                                x.status = "approved"},
                                       m \in {x \in LeaveChoices(2, "e2") :
                                                /\ x.status = "approved"
                                                /\ x.startDate = StartOfDay(x.startDate)
                                                /\ x.endDate = StartOfDay(x.endDate)}}
    /\ employees \in [Employees -> EmployeeStatuses \cup {NoEmployee}]
    /\ nextLeaveId = Cardinality(leaves) + 1
    /\ handled = MaxRequests - 1
    /\ last = [op |-> "none", id |-> 0, status |-> "none", err |-> "ok", again |-> FALSE]
    /\ pc = [p \in Procs |-> "idle"]
    /\ req = [p \in Procs |-> Idle]
    /\ writes = {}

\* one request: a report with its parameters, or without them
NextReport ==
    \/ \E s \in CalendarDates, e \in CalendarDates : GetAttendanceReport(TRUE, s, e)
    \/ GetAttendanceReport(FALSE, 0, 0)
    \/ \E month \in Months : GetLeaveCalendar(TRUE, month)
    \/ GetLeaveCalendar(FALSE, 0)

SpecReport == InitReport /\ [][NextReport]_vars

\* ------------------------------------------------------ the auth middleware
Users == {"u1"}
NoUser == "none"
\* Date.now() / 1000 and the exp claim of a token, in seconds
Times == 0..MaxTime

\* req.header('x-auth-token') is undefined
NoToken == [present |-> FALSE, signed |-> FALSE, exp |-> 0, user |-> NoUser]
\* the x-auth-token header of a request: absent, or a token that is or is not
\* signed with JWT_SECRET and carries the claims exp and user
Tokens == {NoToken} \cup [present : {TRUE}, signed : BOOLEAN, exp : Times, user : Users]

\* jwt.verify(token, secret) returns the payload: the signature is valid and
\* the exp claim is after the clock (it throws otherwise)
JwtVerifies(token, now) == token.signed /\ now < token.exp

\* Auth with the bug of calling next() when the header is missing
AuthWithoutToken(token, now) ==
    IF ~token.present THEN [next |-> TRUE, user |-> NoUser]
    ELSE IF ~JwtVerifies(token, now) THEN [next |-> FALSE, user |-> NoUser]
    ELSE IF token.exp < now THEN [next |-> FALSE, user |-> token.user]
    ELSE [next |-> TRUE, user |-> token.user]

\* the middleware's outcome: whether next() is called, and req.user
Auth(token, now) ==
    IF ~token.present THEN [next |-> FALSE, user |-> NoUser]
    ELSE IF ~JwtVerifies(token, now) THEN [next |-> FALSE, user |-> NoUser]
    ELSE IF token.exp < now THEN [next |-> FALSE, user |-> token.user]
    ELSE [next |-> TRUE, user |-> token.user]

\* res.status(401).json(...): the request ends in the middleware
Denied ==
    /\ Receive
    /\ last' = Response("auth", 0, "none", "Unauthorized")
    /\ UNCHANGED <<employees, attendance, leaves, nextLeaveId, pc, req, writes>>

\* router.<method>(path, auth, handler): a request carrying token at time now
Route(token, now) ==
    \/ ~Auth(token, now).next /\ Denied
    \/ Auth(token, now).next /\ Next
    \/ Auth(token, now).next /\ NextReport

\* the stores of Init; two requests are received
InitAuth ==
    /\ employees = [e \in Employees |-> "active"]
    /\ attendance = {AttendanceRecord("e1", 0, "present")}
    /\ leaves = {}
    /\ nextLeaveId = 1
    /\ handled = MaxRequests - 2
    /\ last = [op |-> "none", id |-> 0, status |-> "none", err |-> "ok", again |-> FALSE]
    /\ pc = [p \in Procs |-> "idle"]
    /\ req = [p \in Procs |-> Idle]
    /\ writes = {}

NextAuth == \E token \in Tokens, now \in Times : Route(token, now)

SpecAuth == InitAuth /\ [][NextAuth]_vars

\* ------------------------------------------------------------------ claims
\* the calendar days of the closed interval [startDay, endDay] of a leave
SpanDays(l) == {d \in Days : DayOf(l.startDate) <= d /\ d <= DayOf(l.endDate)}

\* the records of employee e on calendar day d
OnDay(att, e, d) == {a \in att : a.employee = e /\ DayOf(a.date) = d}

\* a request was handled in this step
Handled == handled' = handled + 1

\* the closed intervals of two well-formed leaves share an instant
Intersect(s1, e1, s2, e2) == s1 <= e2 /\ s2 <= e1

\* C1: for every employee and calendar day there is at most one attendance
\* record of that employee on that day.
C1_OneRecordPerDay ==
    \A a, b \in attendance :
        (a.employee = b.employee /\ DayOf(a.date) = DayOf(b.date)) => a = b

\* C2: no two stored non-rejected leaves of one employee have closed
\* intervals [startDay, endDay] that share a calendar day.
C2_NoSharedLeaveDay ==
    \A l, m \in leaves :
        (l.id # m.id /\ l.employee = m.employee
         /\ l.status # "rejected" /\ m.status # "rejected")
        => SpanDays(l) \cap SpanDays(m) = {}

\* C3: when a PUT /leaves/:id with status 'approved' completes successfully,
\* every calendar day of the leave's span holds a record of the employee with
\* status 'leave'; a day that had a record keeps its records (one of them now
\* 'leave'), a day that had none gets exactly one; every record that was not
\* in the store before is a record of the employee on a day of the span.
C3_ApprovalWritesSpan ==
    [][(Handled /\ last'.op = "putLeave" /\ last'.status = "approved" /\ last'.err = "ok")
       => LET l == LeaveById(leaves', last'.id)
              before(d) == OnDay(attendance, l.employee, d)
              after(d) == OnDay(attendance', l.employee, d)
          IN  /\ l.status = "approved"
              /\ \A d \in SpanDays(l) :
                    /\ \E a \in after(d) : a.status = "leave"
                    /\ IF before(d) = {}
                       THEN Cardinality(after(d)) = 1
                       ELSE {a.date : a \in after(d)} = {a.date : a \in before(d)}
              /\ \A a \in attendance' :
                    (\A b \in attendance : b.employee # a.employee \/ b.date # a.date)
                    => (a.employee = l.employee /\ DayOf(a.date) \in SpanDays(l))
      ]_vars

\* C3's case: an approval over days 0..1 has completed; the record e1 had on
\* day 0 now says 'leave', and a 'leave' record was created for day 1
C3_Witness ==
    /\ last.op = "putLeave" /\ last.status = "approved" /\ last.err = "ok"
    /\ HasLeave(leaves, last.id)
    /\ LET l == LeaveById(leaves, last.id)
       IN  /\ l.employee = "e1"
           /\ SpanDays(l) = {0, 1}
           /\ AttendanceRecord("e1", 0, "leave") \in attendance
           /\ OnDay(attendance, "e1", 1) = {AttendanceRecord("e1", EndOfDay(TicksPerDay), "leave")}

\* C4: a PUT /leaves/:id with status 'approved' that directly follows a
\* successful one for the same leave (and whose writes the store accepts) is
\* answered without error and leaves the attendance store and the leave store
\* as they were.
C4_ApprovalIdempotent ==
    [][\A id \in LeaveIds :
          (/\ last.op = "putLeave" /\ last.id = id
           /\ last.status = "approved" /\ last.err = "ok"
           /\ HasLeave(leaves, id)
           /\ PutLeave(id, "approved", Len(LeaveDateRange(LeaveById(leaves, id)))))
          => (last'.err = "ok" /\ attendance' = attendance /\ leaves' = leaves)
      ]_vars

\* C4's case: the second of two successive approvals of a two-day leave has
\* completed
C4_Witness ==
    /\ last.op = "putLeave" /\ last.status = "approved" /\ last.err = "ok"
    /\ last.again
    /\ HasLeave(leaves, last.id)
    /\ Cardinality(SpanDays(LeaveById(leaves, last.id))) = 2

\* C5: no attendance write of a sync is made while the stored status of its
\* leave is 'pending' or 'rejected'.
C5_SyncWritesWhileApproved == writes \cap {"pending", "rejected"} = {}

\* C6: a stored leave's status changes only from 'pending' to 'approved' or
\* to 'rejected'.
C6_StatusTransitions ==
    [][\A l \in leaves : \A m \in leaves' :
          m.id = l.id =>
             \/ m.status = l.status
             \/ (l.status = "pending" /\ m.status \in {"approved", "rejected"})
      ]_vars

\* a non-rejected leave of e blocks the well-formed request [s, en]
Blocked(e, s, en) ==
    \E l \in leaves : /\ l.employee = e /\ l.status # "rejected"
                      /\ Intersect(l.startDate, l.endDate, s, en)

\* C7: POST /leaves for employee e with interval [s, en], s <= en, fails with
\* EmployeeInactive if e is not active, with NoAttendanceHistory if e has no
\* 'present' record, with OverlappingLeave if a non-rejected leave of e
\* overlaps [s, en], each time leaving the stores unchanged; otherwise exactly
\* one new leave is stored, with status 'pending'.  (Stored intervals are
\* taken well-formed too.)
C7_PostLeaveOutcome ==
    [][\A e \in Employees, s \in Dates, en \in Dates :
          (/\ s <= en
           /\ \A l \in leaves : l.startDate <= l.endDate
           /\ PostLeave(e, s, en))
          => IF employees[e] # "active"
             THEN last'.err = "EmployeeInactive" /\ UNCHANGED store
             ELSE IF ~HasPresent(attendance, e)
             THEN last'.err = "NoAttendanceHistory" /\ UNCHANGED store
             ELSE IF Blocked(e, s, en)
             THEN last'.err = "OverlappingLeave" /\ UNCHANGED store
             ELSE /\ last'.err = "ok"
                  /\ \E l \in leaves' :
                        /\ l \notin leaves
                        /\ l.status = "pending" /\ l.employee = e
                        /\ l.startDate = s /\ l.endDate = en
                        /\ leaves' = leaves \cup {l}
                  /\ UNCHANGED <<employees, attendance>>
      ]_vars

\* C8: a POST /leaves of an active employee with a 'present' record whose
\* interval overlaps a rejected leave of that employee, and no pending or
\* approved one, succeeds and is stored as 'pending'.
C8_RejectedDoesNotBlock ==
    [][\A e \in Employees, s \in Dates, en \in Dates :
          (/\ s <= en
           /\ employees[e] = "active" /\ HasPresent(attendance, e)
           /\ \A l \in leaves : l.startDate <= l.endDate
           /\ \E l \in leaves : /\ l.employee = e /\ l.status = "rejected"
                                /\ Intersect(l.startDate, l.endDate, s, en)
           /\ ~Blocked(e, s, en)
           /\ PostLeave(e, s, en))
          => /\ last'.err = "ok"
             /\ \E l \in leaves' \ leaves :
                   l.status = "pending" /\ l.employee = e
      ]_vars

\* C9: a POST /attendance for an active employee and a calendar day that
\* already has a record of that employee fails with the duplicate-record
\* error and leaves the attendance store unchanged.
C9_ManualCreateRefused ==
    [][\A e \in Employees, d \in Dates, st \in ManualStatuses :
          (/\ employees[e] = "active"
           /\ OnDay(attendance, e, DayOf(d)) # {}
           /\ PostAttendance(e, d, st))
          => (last'.err = "DuplicateRecord" /\ attendance' = attendance)
      ]_vars

\* C10: the store never holds two non-rejected leaves of one employee whose
\* (well-formed) intervals overlap.
C10_NoOverlapStored ==
    \A l, m \in leaves :
        (/\ l.id # m.id /\ l.employee = m.employee
         /\ l.status # "rejected" /\ m.status # "rejected"
         /\ l.startDate <= l.endDate /\ m.startDate <= m.endDate)
        => ~Intersect(l.startDate, l.endDate, m.startDate, m.endDate)

\* C11: when a record of the employee for the calendar day appeared between
\* the find and the save of an approval sync (a manual create, or another
\* sync), then once the sync's save has answered and no handler is in flight
\* the store holds exactly one record of that employee on that day, and its
\* status is 'leave'.
C11_RaceKeepsOneLeaveRecord ==
    [][\A p \in Procs :
          (/\ pc[p] = "ul_sync_save"
           /\ req[p].found = NoRecord
           /\ OnDay(attendance, req[p].employee, DayOf(req[p].range[req[p].i])) # {}
           /\ ULSyncSave(p)
           /\ \A q \in Procs : pc'[q] = "idle")
          => LET day == OnDay(attendance', req[p].employee,
                              DayOf(req[p].range[req[p].i]))
             IN  /\ Cardinality(day) = 1
                 /\ \A a \in day : a.status = "leave"
      ]_vars

\* a sync for leave id is in progress
Syncing(id) ==
    \E p \in Procs : pc[p] \in {"ul_update", "ul_sync_find", "ul_sync_save"} /\ req[p].id = id

\* C12: no leave is stored 'approved' while a calendar day of its span has no
\* 'leave' record of its employee, unless a sync for that leave is in
\* progress.
C12_ApprovedIsMaterialized ==
    \A l \in leaves :
        (l.status = "approved" /\ ~Syncing(l.id))
        => \A d \in SpanDays(l) : \E a \in OnDay(attendance, l.employee, d) : a.status = "leave"

\* C13: when an approval wrote only a prefix of the span before a write was
\* refused, running the sync again to completion succeeds and leaves exactly
\* the attendance store an uninterrupted sync would have produced: every span
\* day holds a 'leave' record, a day that had no record holds one, a day that
\* had records holds as many as before.  And the PUT /leaves/:id with status
\* 'approved' that follows the failed one does run that sync to completion.
C13_RerunCompletesSync ==
    [][(/\ Handled
        /\ last'.op = "putLeave" /\ last'.status = "approved"
        /\ HasLeave(leaves, last'.id))
       => LET id == last'.id
              l == LeaveById(leaves, id)
              e == l.employee
              range == LeaveDateRange(l)
              whole == SyncPrefix(attendance, e, range, Len(range))
              rerun == SyncPrefix(attendance', e, range, Len(range))
          IN  /\ (\E n \in 0..MaxRange : n < Len(range) /\ PutLeave(id, "approved", n))
                 => /\ last'.err = "ServerError"
                    /\ rerun.ok
                    /\ rerun.att = whole.att
                    /\ \A d \in SpanDays(l) :
                          /\ \E a \in OnDay(rerun.att, e, d) : a.status = "leave"
                          /\ Cardinality(OnDay(rerun.att, e, d))
                               = IF OnDay(attendance, e, d) = {} THEN 1
                                 ELSE Cardinality(OnDay(attendance, e, d))
              /\ (/\ last.op = "putLeave" /\ last.id = id
                  /\ last.status = "approved" /\ last.err = "ServerError"
                  /\ PutLeave(id, "approved", Len(range)))
                 => /\ last'.err = "ok"
                    /\ attendance' = whole.att
                    /\ \A d \in SpanDays(l) :
                          \E a \in OnDay(attendance', e, d) : a.status = "leave"
      ]_vars

\* C13's case: an approval of a two-day leave of e1 was refused after its
\* first day: day 0 holds the 'leave' record, day 1 holds none yet, and the
\* PUT can be issued again
C13_Witness ==
    /\ last.op = "putLeave" /\ last.status = "approved" /\ last.err = "ServerError"
    /\ HasLeave(leaves, last.id)
    /\ handled < MaxRequests
    /\ LET l == LeaveById(leaves, last.id)
       IN  /\ l.employee = "e1" /\ l.status = "approved"
           /\ SpanDays(l) = {0, 1}
           /\ \E a \in OnDay(attendance, "e1", 0) : a.status = "leave"
           /\ OnDay(attendance, "e1", 1) = {}

\* C14: when an approval has answered with a server error because a sync
\* write was refused, the leave is stored 'approved' and carries an observable
\* needs-reconciliation mark.
C14_FailedSyncIsFlagged ==
    (/\ last.op = "putLeave" /\ last.status = "approved" /\ last.err = "ServerError"
     /\ HasLeave(leaves, last.id))
    => LET l == LeaveById(leaves, last.id)
       IN  /\ l.status = "approved"
           /\ "needsReconciliation" \in DOMAIN l

\* C15: a step stores a new attendance record or a new leave only for an
\* employee who is 'active' when the step is taken.
C15_CreatedOnlyForActive ==
    [][/\ \A a \in attendance' :
             (\A b \in attendance : b.employee # a.employee \/ b.date # a.date)
             => employees[a.employee] = "active"
       /\ \A l \in leaves' :
             ~HasLeave(leaves, l.id) => employees[l.employee] = "active"
      ]_vars

\* C16: every stored leave starts on a calendar day that is not after the
\* calendar day it ends on.
C16_StoredLeaveWellFormed ==
    \A l \in leaves : DayOf(l.startDate) <= DayOf(l.endDate)

\* the calendar days of a leave's closed interval, and of a month
CalendarSpan(l) == {d \in CalendarDays : DayOf(l.startDate) <= d /\ d <= DayOf(l.endDate)}
DaysOfMonth(month) ==
    {d \in CalendarDays : (month - 1) * MonthLength <= d /\ d < month * MonthLength}

\* the records of employee e with status st on the days startDay .. endDay
Tally(att, e, st, startDay, endDay) ==
    Cardinality({a \in att : /\ a.employee = e /\ a.status = st
                             /\ startDay <= DayOf(a.date) /\ DayOf(a.date) <= endDay})

\* C17: GET /attendance/report for a window startDay <= endDay answers with
\* exactly one row per active employee and none for any other; each row's
\* present, absent, half-day and leave counts are the numbers of that
\* employee's records of that status whose day lies in [startDay, endDay]
\* (zero when there is none), and total is their sum.
C17_ReportTallies ==
    [][\A s \in CalendarDates, e \in CalendarDates :
          (/\ last'.op = "attendanceReport"
           /\ DayOf(s) <= DayOf(e)
           /\ GetAttendanceReport(TRUE, s, e))
          => LET rows == last'.body
                 count(emp, st) == Tally(attendance, emp, st, DayOf(s), DayOf(e))
             IN  /\ last'.err = "ok"
                 /\ \A emp \in Employees :
                       Cardinality({i \in 1..Len(rows) : rows[i].employee = emp})
                         = IF employees[emp] = "active" THEN 1 ELSE 0
                 /\ \A i \in 1..Len(rows) :
                       /\ rows[i].present = count(rows[i].employee, "present")
                       /\ rows[i].absent = count(rows[i].employee, "absent")
                       /\ rows[i].halfDay = count(rows[i].employee, "half-day")
                       /\ rows[i].leave = count(rows[i].employee, "leave")
                       /\ rows[i].total = rows[i].present + rows[i].absent
                                          + rows[i].halfDay + rows[i].leave
      ]_vars

\* C18: when the employee of every leave exists and no leave ends before it
\* starts, GET /leaves/calendar for a month answers with exactly one entry
\* for each approved leave and each calendar day of its span that lies in the
\* month, with no other entry, the entries of one leave in ascending day
\* order.  (Each employee has at most one leave here, so a leave's entries are
\* those that name its employee.)
C18_CalendarEntries ==
    [][\A month \in Months :
          (/\ last'.op = "leaveCalendar"
           /\ \A l \in leaves : Populated(employees, l.employee)
                                 /\ l.startDate <= l.endDate
           /\ GetLeaveCalendar(TRUE, month))
          => LET entries == last'.body
                 of(emp, d) == {i \in 1..Len(entries) :
                                  entries[i].employee = emp /\ entries[i].date = d}
                 due(emp, d) == {l \in leaves : /\ l.employee = emp /\ l.status = "approved"
                                                /\ d \in CalendarSpan(l)
                                                /\ d \in DaysOfMonth(month)}
             IN  /\ last'.err = "ok"
                 /\ \A emp \in Employees, d \in CalendarDays :
                       Cardinality(of(emp, d)) = Cardinality(due(emp, d))
                 /\ \A i \in 1..Len(entries) : entries[i].date \in CalendarDays
                 /\ \A i, j \in 1..Len(entries) :
                       (i < j /\ entries[i].employee = entries[j].employee)
                       => entries[i].date < entries[j].date
      ]_vars

\* C19: GET /attendance/report for a window with startDay > endDay fails with
\* InvalidRange.
C19_InvertedWindowRefused ==
    [][\A s \in CalendarDates, e \in CalendarDates :
          (/\ last'.op = "attendanceReport"
           /\ DayOf(s) > DayOf(e)
           /\ GetAttendanceReport(TRUE, s, e))
          => last'.err = "InvalidRange"
      ]_vars

\* C20: a GET /attendance/report and a GET /leaves/calendar, whatever its
\* parameters and its answer, leaves every attendance record, every leave and
\* every employee as it was.
C20_ReportsReadOnly ==
    [][(Handled /\ last'.op \in {"attendanceReport", "leaveCalendar"})
       => (attendance' = attendance /\ leaves' = leaves /\ employees' = employees)
      ]_vars

\* C20's case: a report was answered with a row that counts a record of the
\* store
C20_Witness ==
    /\ last.op = "attendanceReport" /\ last.err = "ok"
    /\ attendance # {}
    /\ \E i \in 1..Len(last.body) : last.body[i].total > 0

\* C21: a PUT /leaves/:id with status 'approved' for leave L of employee E,
\* whether its sync completes or is refused partway, removes no attendance
\* record, leaves every record of another employee or of a day outside L's
\* span as it was and creates none there, and changes nothing but the status
\* (to 'leave') of a record of E inside the span.
C21_SyncFrame ==
    [][(/\ Handled
        /\ last'.op = "putLeave" /\ last'.status = "approved"
        /\ HasLeave(leaves, last'.id))
       => LET l == LeaveById(leaves, last'.id)
              inSpan(a) == a.employee = l.employee /\ DayOf(a.date) \in SpanDays(l)
          IN  /\ \A a \in attendance :
                    \E b \in attendance' :
                       /\ b.employee = a.employee /\ b.date = a.date
                       /\ \/ b = a
                          \/ (inSpan(a) /\ b.status = "leave")
              /\ \A b \in attendance' :
                    (\A a \in attendance : a.employee # b.employee \/ a.date # b.date)
                    => (inSpan(b) /\ b.status = "leave")
      ]_vars

\* C21's case: an approval of a leave of e1 on day 1 has completed; e1's
\* record of day 0 and a record of e2 are in the store beside the 'leave'
\* record of day 1
C21_Witness ==
    /\ last.op = "putLeave" /\ last.status = "approved" /\ last.err = "ok"
    /\ HasLeave(leaves, last.id)
    /\ LET l == LeaveById(leaves, last.id)
       IN  /\ l.employee = "e1" /\ SpanDays(l) = {1}
           /\ AttendanceRecord("e1", 0, "present") \in attendance
           /\ \E a \in OnDay(attendance, "e1", 1) : a.status = "leave"
           /\ \E a \in attendance : a.employee = "e2"

\* C26: a POST /leaves, a DELETE /leaves/:id and a PUT /leaves/:id whose status
\* is 'rejected', 'pending' or absent leave the attendance store unchanged,
\* whatever they answer.
C26_OnlyApprovalWritesAttendance ==
    [][(/\ Handled
        /\ \/ last'.op \in {"postLeave", "deleteLeave"}
           \/ (last'.op = "putLeave" /\ last'.status # "approved"))
       => attendance' = attendance
      ]_vars

\* C26's case: an approved leave was deleted and a 'leave' record its sync
\* wrote is still in the store
C26_Witness ==
    /\ last.op = "deleteLeave" /\ last.err = "ok"
    /\ ~HasLeave(leaves, last.id)
    /\ \E a \in attendance : a.status = "leave"

\* C22: the overlap test is symmetric: testing a stored leave's interval
\* against a requested interval gives the same answer as testing the requested
\* interval, had it been stored, against the leave's interval as the request.
C22_OverlapSymmetric ==
    \A l \in leaves : \A s \in Dates, en \in Dates :
       OverlapQuery(l, s, en)
          = OverlapQuery([startDate |-> s, endDate |-> en], l.startDate, l.endDate)

\* the closed intervals [aStart, aEnd] and [bStart, bEnd] intersect
Overlaps(aStart, aEnd, bStart, bEnd) == aStart <= bEnd /\ bStart <= aEnd

\* C24: for every stored leave and every interval a request can name, the
\* three-clause test of POST /leaves, of the GET /leaves date filter and of the
\* calendar's month window is true exactly when the leave's start is not after
\* the interval's end and the interval's start is not after the leave's end.
C24_ThreeClauseIsClosedInterval ==
    \A l \in leaves :
       /\ \A s \in Dates, en \in Dates :
             /\ OverlapQuery(l, s, en) = Overlaps(l.startDate, l.endDate, s, en)
             /\ LeavesDateFilter(l, s, en) = Overlaps(l.startDate, l.endDate, s, en)
       /\ \A month \in Months :
             l.status = "approved"
             => CalendarQuery(l, FirstOfMonth(month), LastOfMonth(month))
                  = Overlaps(l.startDate, l.endDate,
                             FirstOfMonth(month), LastOfMonth(month))

\* C25: the day expansion of an approval of a stored leave, when the leave's
\* start day is not after its end day, lists every calendar day from the start
\* day to the end day once, in ascending order; when the start day is after the
\* end day the approval is answered with InvalidRange.
C25_ExpansionExact ==
    [][(/\ Handled
        /\ last'.op = "putLeave" /\ last'.status = "approved"
        /\ HasLeave(leaves, last'.id))
       => LET l == LeaveById(leaves, last'.id)
              range == LeaveDateRange(l)
              startDay == DayOf(l.startDate)
              endDay == DayOf(l.endDate)
          IN  IF startDay <= endDay
              THEN /\ Len(range) = endDay - startDay + 1
                   /\ \A i \in 1..Len(range) : DayOf(range[i]) = startDay + i - 1
              ELSE last'.err = "InvalidRange"
      ]_vars

\* the caller of a request is unauthenticated: no token, a token that fails
\* verification, or an expired token
Unauthenticated(token, now) == ~token.present \/ ~token.signed \/ token.exp < now

\* C23: a request of an unauthenticated caller to any route is answered with
\* 401 by the middleware and changes no stored record; the middleware calls
\* next() only for a verified, unexpired token, with req.user set to the
\* token's user.
C23_UnauthenticatedIsRefused ==
    [][\A token \in Tokens, now \in Times :
          /\ (Unauthenticated(token, now) /\ Route(token, now))
             => /\ last'.op = "auth" /\ last'.err = "Unauthorized"
                /\ employees' = employees
                /\ attendance' = attendance
                /\ leaves' = leaves
          /\ Auth(token, now).next
             => /\ ~Unauthenticated(token, now)
                /\ Auth(token, now).user = token.user
                /\ Auth(token, now).user \in Users
      ]_vars

\* C23's case: with a leave and an attendance record stored, a request was
\* answered with 401
C23_Witness ==
    /\ last.op = "auth" /\ last.err = "Unauthorized"
    /\ leaves # {}
    /\ attendance # {}

====
